---- MODULE Spec2Model ----
(***************************************************************************)
(* Model of strif: the cohort merger (src/src/merge.rs) and the per-sample *)
(* profiler (src/src/profile.rs).                                          *)
(*                                                                         *)
(* Abstractions, stated once:                                              *)
(*  - a regular expression is represented by the set of locus ids it       *)
(*    matches;                                                             *)
(*  - f64 values are exact extended rationals n/d (d = 0 encodes +inf,     *)
(*    -inf and NaN); rounding is not modelled.  A quotient whose divisor   *)
(*    is a wrapped u32 value 2^32 - k times the depth is kept as an        *)
(*    unevaluated term <<count, k, depth>> because 2^32 - k is outside the *)
(*    model checker's integer range;                                       *)
(*  - read depths are integer valued;                                      *)
(*  - a table cell is the sequence of triples it parses to.                *)
(***************************************************************************)
EXTENDS Bags, FiniteSets, Integers, Sequences, TLC

\* ------------------------------------------------------------------ bounds
MaxRows == 3
MaxTriples == 2

\* ------------------------------------------------------- program constants
DefaultReadLength == 150

\* ------------------------------------------------------------ input values
Loci == {"L1", "L2"}
SampleA == "sampleA"
SampleB == "sampleB"
Variants == {<<"chr1:100-130", "CAG">>, <<"chr2:50-70", "AC">>}
ReadCountValues == {0, 1}
MinReadCountValues == {1, 2}
Interruptions == {"T", "GG"}
RawCounts == {0, 1}
\* repeat lengths inside (0, read_len], and 0, read_len + 1, beyond
ValidRepeatLens == {15, 50}
InvalidRepeatLens == {0, 151, 200}
Triples ==
    [interruption : Interruptions, repeat_len : ValidRepeatLens, count : {1}]
    \cup [interruption : {"T"}, repeat_len : InvalidRepeatLens, count : RawCounts]
NoFilter == [some |-> FALSE, matches |-> {}]
FilterL1 == [some |-> TRUE, matches |-> {"L1"}]

VARIABLES
    \* inputs of merge(): the per-sample tables in manifest order, the read
    \* depth table, the compiled filter, the threshold, the read length
    profiles, read_depths_map, filter_regex, min_read_count, read_len,
    \* whether the build checks integer overflow (debug) or wraps (release)
    overflow_checks,
    \* position of merge(): which loop it is in, which profile and row
    m_pc, profile_idx, row_idx, pending,
    \* the MergedProfile
    mp_interruption_counts, mp_read_counts, mp_motifs, mp_reference_regions,
    \* rows written by MergedProfile::write_to, number of warn! lines
    merged_out, warnings,
    \* inputs of profile(): the catalog document and the compiled filter
    catalog, p_filter,
    \* position of profile() and the locals of the read loop's last iteration:
    \* the record's locus, observed_seq.len() and the detector's list
    p_pc, p_locus_id, p_repeat_len, p_interruptions, reads_done,
    \* the two maps load_str_catalog returns
    motifs, reference_regions,
    \* the Profile
    p_interruption_counts, p_read_counts,
    \* rows written by Profile::write_to
    profile_out,
    \* find_interruptions: its arguments, its loop position and locals, and
    \* the vector it returns
    fi_observed, fi_alignment, fi_pc, fi_idx, fi_interruptions, fi_interruption,
    fi_result

mergeVars == <<profiles, read_depths_map, filter_regex, min_read_count, read_len,
               overflow_checks, m_pc, profile_idx, row_idx, pending,
               mp_interruption_counts, mp_read_counts, mp_motifs,
               mp_reference_regions, merged_out, warnings>>

profileVars == <<catalog, p_filter, p_pc, p_locus_id, p_repeat_len, p_interruptions,
                 reads_done, motifs,
                 reference_regions, p_interruption_counts, p_read_counts, profile_out>>

findVars == <<fi_observed, fi_alignment, fi_pc, fi_idx, fi_interruptions,
              fi_interruption, fi_result>>

vars == <<mergeVars, profileVars, findVars>>

\* ------------------------------------------------------------- map helpers
EmptyMap == <<>>

Has(map, key) == key \in DOMAIN map

Put(map, key, value) == (key :> value) @@ map

\* ------------------------------------------------- components not running
MergeIdle ==
    /\ profiles = <<>>
    /\ read_depths_map = EmptyMap
    /\ filter_regex = NoFilter
    /\ min_read_count = 1
    /\ read_len = DefaultReadLength
    /\ overflow_checks = TRUE
    /\ m_pc = "idle"
    /\ profile_idx = 1
    /\ row_idx = 1
    /\ pending = <<>>
    /\ mp_interruption_counts = EmptyMap
    /\ mp_read_counts = EmptyMap
    /\ mp_motifs = EmptyMap
    /\ mp_reference_regions = EmptyMap
    /\ merged_out = {}
    /\ warnings = 0

NoAlignment == [operations |-> <<>>, ystart |-> 0]

ProfileIdle ==
    /\ catalog = <<>>
    /\ p_filter = NoFilter
    /\ p_pc = "idle"
    /\ p_locus_id = ""
    /\ p_repeat_len = 0
    /\ p_interruptions = <<>>
    /\ reads_done = 0
    /\ motifs = EmptyMap
    /\ reference_regions = EmptyMap
    /\ p_interruption_counts = EmptyMap
    /\ p_read_counts = EmptyMap
    /\ profile_out = {}

FindIdle ==
    /\ fi_observed = <<>>
    /\ fi_alignment = NoAlignment
    /\ fi_pc = "idle"
    /\ fi_idx = 1
    /\ fi_interruptions = <<>>
    /\ fi_interruption = <<>>
    /\ fi_result = <<>>

\* ---------------------------------------------------------- f64 arithmetic
Abs(x) == IF x < 0 THEN -x ELSE x

RECURSIVE GCD(_, _)
GCD(a, b) == IF b = 0 THEN a ELSE GCD(b, a % b)

Sign(x) == IF x < 0 THEN -1 ELSE IF x > 0 THEN 1 ELSE 0

\* the extended rational n/d in lowest terms; d = 0: 1/0 = +inf, -1/0 = -inf,
\* 0/0 = NaN
Rat(n, d) ==
    IF d = 0 THEN <<Sign(n), 0>>
    ELSE LET g == GCD(Abs(n), Abs(d))
         IN <<Sign(d) * (n \div g), Abs(d) \div g>>

RatAdd(p, q) ==
    IF p[2] = 0 /\ q[2] = 0 THEN (IF p[1] = q[1] THEN p ELSE <<0, 0>>)
    ELSE IF p[2] = 0 THEN p
    ELSE IF q[2] = 0 THEN q
    ELSE LET g == GCD(p[2], q[2])
             l == (p[2] \div g) * q[2]
         IN Rat(p[1] * (l \div p[2]) + q[1] * (l \div q[2]), l)

F64(n, d) == [n |-> Rat(n, d)[1], d |-> Rat(n, d)[2], big |-> EmptyBag]

F64Big(count, k, depth) ==
    [n |-> 0, d |-> 1, big |-> SetToBag({<<count, k, depth>>})]

\* c += count on f64 (merge.rs:47)
FAdd(a, b) ==
    LET r == RatAdd(<<a.n, a.d>>, <<b.n, b.d>>)
    IN [n |-> r[1], d |-> r[2],
        big |-> IF r[2] = 0 THEN EmptyBag ELSE a.big (+) b.big]

is_infinite(v) == v.d = 0 /\ v.n # 0

is_nan(v) == v.d = 0 /\ v.n = 0

is_negative(v) == v.n < 0 \/ (\E t \in BagToSet(v.big) : t[3] < 0)

\* ---------------------------------------------------------- u32 arithmetic
\* a u32 value is [wrapped |-> FALSE, v |-> x] for the number x and
\* [wrapped |-> TRUE, v |-> k] for the number 2^32 - k (k > 0)
U32(x) == [wrapped |-> FALSE, v |-> x]

\* a - b on u32 operands below 2^31: the result and whether it overflowed
U32Sub(a, b) ==
    IF a >= b THEN [ovf |-> FALSE, val |-> U32(a - b)]
    ELSE [ovf |-> TRUE, val |-> [wrapped |-> TRUE, v |-> b - a]]

\* u + 1 on a u32 value
U32Inc(u) ==
    IF ~u.wrapped THEN [ovf |-> FALSE, val |-> U32(u.v + 1)]
    ELSE IF u.v = 1 THEN [ovf |-> TRUE, val |-> U32(0)]
    ELSE [ovf |-> FALSE, val |-> [wrapped |-> TRUE, v |-> u.v - 1]]

\* ------------------------------------------------------------ merge.rs
\* the number of start offsets taken as read_len - repeat_len
norm_interruption_count_NoPlusOne(count, rl, repeat_len, read_depth, checks) ==
    LET sub == U32Sub(rl, repeat_len)
        expected_num_reads == sub.val.v * read_depth
        value ==
            IF ~sub.val.wrapped
            THEN IF expected_num_reads # 0
                 THEN F64(count, expected_num_reads)
                 ELSE F64(IF read_depth < 0 THEN -count ELSE count, 0)
            ELSE IF read_depth = 0 THEN F64(count, 0)
            ELSE IF count = 0 THEN F64(0, 1)
            ELSE F64Big(count, sub.val.v, read_depth)
    IN [panic |-> checks /\ sub.ovf, value |-> value]

\* fn norm_interruption_count: the value returned and whether the build
\* panics on the u32 subtraction or addition.  Negative zero is not
\* distinguished from zero in a finite result.
norm_interruption_count(count, rl, repeat_len, read_depth, checks) ==
    LET sub == U32Sub(rl, repeat_len)
        inc == U32Inc(sub.val)
        num_possible_start == inc.val
        expected_num_reads == num_possible_start.v * read_depth
        value ==
            IF ~num_possible_start.wrapped
            THEN IF expected_num_reads # 0
                 THEN F64(count, expected_num_reads)
                 ELSE F64(IF read_depth < 0 THEN -count ELSE count, 0)
            ELSE IF read_depth = 0 THEN F64(count, 0)
            ELSE IF count = 0 THEN F64(0, 1)
            ELSE F64Big(count, num_possible_start.v, read_depth)
    IN [panic |-> checks /\ (sub.ovf \/ inc.ovf), value |-> value]

\* the count inserted without and_modify: the last triple wins
increment_interruption_Overwriting(ic, locus_id, sample_id, interruption, count) ==
    LET inner == IF Has(ic, locus_id) THEN ic[locus_id] ELSE EmptyMap
    IN Put(ic, locus_id, Put(inner, <<sample_id, interruption>>, count))

\* MergedProfile::increment_interruption
increment_interruption(ic, locus_id, sample_id, interruption, count) ==
    LET inner == IF Has(ic, locus_id) THEN ic[locus_id] ELSE EmptyMap
        key == <<sample_id, interruption>>
    IN Put(ic, locus_id,
           Put(inner, key, IF Has(inner, key) THEN FAdd(inner[key], count) ELSE count))

\* the entry vector replaced instead of extended
add_read_count_Replacing(rc, locus_id, sample_id, count) ==
    Put(rc, locus_id, <<(<<sample_id, count>>)>>)

\* MergedProfile::add_read_count
add_read_count(rc, locus_id, sample_id, count) ==
    Put(rc, locus_id,
        Append(IF Has(rc, locus_id) THEN rc[locus_id] ELSE <<>>, <<sample_id, count>>))

\* MergedProfile::add_reference_region
add_reference_region(rr, locus_id, reference_region) ==
    IF Has(rr, locus_id) THEN rr ELSE Put(rr, locus_id, reference_region)

\* insert instead of entry().or_insert(): the last row wins
add_motif_Overwriting(mo, locus_id, motif) == Put(mo, locus_id, motif)

\* MergedProfile::add_motif
add_motif(mo, locus_id, motif) ==
    IF Has(mo, locus_id) THEN mo ELSE Put(mo, locus_id, motif)

\* filter_regex.is_match(locus_id)
is_match(regex, locus_id) == locus_id \in regex.matches

\* the row dropped by the filter (merge.rs:162-166)
FilteredOut(regex, locus_id) == regex.some /\ ~is_match(regex, locus_id)

\* the threshold compared one too low
BelowMinimum_OffByOne(read_count, minimum) == read_count < minimum - 1

\* the row dropped by the threshold (merge.rs:170)
BelowMinimum(read_count, minimum) == read_count < minimum

\* repeat_len == 0 || repeat_len > read_len (merge.rs:192)
InvalidRepeatLen(repeat_len, rl) == repeat_len = 0 \/ repeat_len > rl

\* norm_count.is_infinite() || norm_count.is_nan() || norm_count < 0.0
InvalidNormCount(v) == is_infinite(v) \/ is_nan(v) \/ is_negative(v)

CurrentProfile == profiles[profile_idx]

CurrentRecord == CurrentProfile.rows[row_idx]

\* one iteration of the record loop up to the triple loop (merge.rs:157-187)
MergeRow ==
    /\ m_pc = "rows"
    /\ profile_idx <= Len(profiles)
    /\ row_idx <= Len(CurrentProfile.rows)
    /\ LET sample_id == CurrentProfile.sample_id
           record == CurrentRecord
           locus_id == record.locus_id
       IN IF FilteredOut(filter_regex, locus_id)
             \/ BelowMinimum(record.read_count, min_read_count)
          THEN /\ row_idx' = row_idx + 1
               /\ UNCHANGED <<m_pc, pending, mp_read_counts,
                              mp_reference_regions, mp_motifs>>
          ELSE /\ mp_read_counts' =
                      add_read_count(mp_read_counts, locus_id, sample_id, record.read_count)
               /\ mp_reference_regions' =
                      add_reference_region(mp_reference_regions, locus_id,
                                           record.reference_region)
               /\ mp_motifs' = add_motif(mp_motifs, locus_id, record.motif)
               /\ IF Len(record.interruption_counts) = 0
                  THEN /\ row_idx' = row_idx + 1
                       /\ UNCHANGED <<m_pc, pending>>
                  ELSE /\ pending' = record.interruption_counts
                       /\ m_pc' = "triples"
                       /\ UNCHANGED row_idx
    /\ UNCHANGED <<profileVars, findVars>>
    /\ UNCHANGED <<profiles, read_depths_map, filter_regex, min_read_count, read_len,
                   overflow_checks, profile_idx, mp_interruption_counts,
                   merged_out, warnings>>

\* one iteration of the triple loop (merge.rs:188-211)
MergeTriple ==
    /\ m_pc = "triples"
    /\ pending # <<>>
    /\ LET sample_id == CurrentProfile.sample_id
           locus_id == CurrentRecord.locus_id
           t == Head(pending)
           read_depth == read_depths_map[sample_id]
           res == norm_interruption_count(t.count, read_len, t.repeat_len,
                                          read_depth, overflow_checks)
           norm_count == res.value
           w1 == IF InvalidRepeatLen(t.repeat_len, read_len) THEN 1 ELSE 0
           w2 == IF InvalidNormCount(norm_count) THEN 1 ELSE 0
       IN IF res.panic
          THEN /\ m_pc' = "aborted"
               /\ warnings' = warnings + w1
               /\ UNCHANGED <<pending, row_idx, mp_interruption_counts>>
          ELSE /\ mp_interruption_counts' =
                      increment_interruption(mp_interruption_counts, locus_id,
                                             sample_id, t.interruption, norm_count)
               /\ warnings' = warnings + w1 + w2
               /\ pending' = Tail(pending)
               /\ IF Tail(pending) = <<>>
                  THEN m_pc' = "rows" /\ row_idx' = row_idx + 1
                  ELSE UNCHANGED <<m_pc, row_idx>>
    /\ UNCHANGED <<profileVars, findVars>>
    /\ UNCHANGED <<profiles, read_depths_map, filter_regex, min_read_count, read_len,
                   overflow_checks, profile_idx, mp_read_counts, mp_motifs,
                   mp_reference_regions, merged_out>>

\* the profile loop moves to the next manifest entry (merge.rs:151)
MergeNextProfile ==
    /\ m_pc = "rows"
    /\ profile_idx <= Len(profiles)
    /\ row_idx > Len(CurrentProfile.rows)
    /\ profile_idx' = profile_idx + 1
    /\ row_idx' = 1
    /\ UNCHANGED <<profileVars, findVars>>
    /\ UNCHANGED <<profiles, read_depths_map, filter_regex, min_read_count, read_len,
                   overflow_checks, m_pc, pending, mp_interruption_counts,
                   mp_read_counts, mp_motifs, mp_reference_regions,
                   merged_out, warnings>>

\* write_to iterating the interruption map instead of the motif map
write_to_InterruptedOnly(ic, rc, mo, rr) ==
    LET present == {l \in DOMAIN ic : Has(mo, l) /\ Has(rr, l) /\ Has(rc, l)}
    IN [panic |-> present # DOMAIN ic,
        rows |-> {[locus_id |-> l, reference_region |-> rr[l], motif |-> mo[l],
                   read_counts |-> rc[l],
                   interruption_counts |-> ic[l]]
                  : l \in present}]

\* MergedProfile::write_to: the rows written and whether a lookup panics
write_to(ic, rc, mo, rr) ==
    LET present == {l \in DOMAIN mo : Has(rr, l) /\ Has(rc, l)}
    IN [panic |-> present # DOMAIN mo,
        rows |-> {[locus_id |-> l, reference_region |-> rr[l], motif |-> mo[l],
                   read_counts |-> rc[l],
                   interruption_counts |-> IF Has(ic, l) THEN ic[l] ELSE EmptyMap]
                  : l \in present}]

\* merged_profile.write_to(out_path) (merge.rs:215)
MergeWrite ==
    /\ m_pc = "rows"
    /\ profile_idx > Len(profiles)
    /\ LET out == write_to(mp_interruption_counts, mp_read_counts, mp_motifs,
                           mp_reference_regions)
       IN IF out.panic
          THEN m_pc' = "aborted" /\ UNCHANGED merged_out
          ELSE m_pc' = "done" /\ merged_out' = out.rows
    /\ UNCHANGED <<profileVars, findVars>>
    /\ UNCHANGED <<profiles, read_depths_map, filter_regex, min_read_count, read_len,
                   overflow_checks, profile_idx, row_idx, pending,
                   mp_interruption_counts, mp_read_counts, mp_motifs,
                   mp_reference_regions, warnings>>

\* ------------------------------------------------------ merge: inputs
\* tables of exactly n rows over the given rows, one row per locus as
\* Profile::write_to produces them (profile.rs:55)
RECURSIVE TablesOfLen(_, _)
TablesOfLen(rows, n) ==
    IF n = 0 THEN {<<>>}
    ELSE {Append(p[1], p[2]) : p \in
            {q \in TablesOfLen(rows, n - 1) \X rows :
                \A i \in 1..Len(q[1]) : q[1][i].locus_id # q[2].locus_id}}

\* cells of exactly n triples
RECURSIVE CellsOfLen(_)
CellsOfLen(n) ==
    IF n = 0 THEN {<<>>}
    ELSE {Append(p[1], p[2]) : p \in CellsOfLen(n - 1) \X Triples}

\* the manifest lists sampleA before sampleB
Manifest(ta, tb) ==
    <<[sample_id |-> SampleA, rows |-> ta], [sample_id |-> SampleB, rows |-> tb]>>

\* the pairs <<a, b>> of naturals with a + b <= n
Splits(n) == {p \in (0..n) \X (0..n) : p[1] + p[2] <= n}

MergeStart ==
    /\ read_len = DefaultReadLength
    /\ m_pc = "rows"
    /\ profile_idx = 1
    /\ row_idx = 1
    /\ pending = <<>>
    /\ mp_interruption_counts = EmptyMap
    /\ mp_read_counts = EmptyMap
    /\ mp_motifs = EmptyMap
    /\ mp_reference_regions = EmptyMap
    /\ merged_out = {}
    /\ warnings = 0

\* rows that differ in locus, reference region, motif, read count and cell;
\* a row without reads has an empty cell
MergeRows ==
    {[locus_id |-> l, reference_region |-> v[1], motif |-> v[2], read_count |-> c[1],
      interruption_counts |-> c[2]] :
        l \in Loci, v \in Variants,
        c \in {<<0, <<>> >>, <<1, <<>> >>,
               <<1, <<[interruption |-> "T", repeat_len |-> 50, count |-> 1]>> >>}}

\* at most MaxRows rows over the two tables
InitMerge ==
    /\ profiles \in UNION {{Manifest(ta, tb) : ta \in TablesOfLen(MergeRows, k[1]),
                                               tb \in TablesOfLen(MergeRows, k[2])}
                           : k \in Splits(MaxRows)}
    /\ read_depths_map = (SampleA :> 10) @@ (SampleB :> 20)
    /\ filter_regex \in {NoFilter, FilterL1}
    /\ min_read_count \in MinReadCountValues
    /\ overflow_checks = TRUE
    /\ MergeStart
    /\ ProfileIdle
    /\ FindIdle

MergeNext == MergeRow \/ MergeTriple \/ MergeNextProfile \/ MergeWrite

SpecMerge == InitMerge /\ [][MergeNext]_vars

\* a table without rows, or with the one row of locus L1 and a cell of n
\* triples
NormTables(n) ==
    (IF n = 0 THEN {<<>>} ELSE {}) \cup
    {<<[locus_id |-> "L1", reference_region |-> "chr1:100-130", motif |-> "CAG",
        read_count |-> 1, interruption_counts |-> cell]>> : cell \in CellsOfLen(n)}

\* at most MaxTriples triples over the two tables
InitNorm ==
    /\ profiles \in UNION {{Manifest(ta, tb) : ta \in NormTables(k[1]),
                                               tb \in NormTables(k[2])}
                           : k \in Splits(MaxTriples)}
    /\ read_depths_map \in {(SampleA :> 10) @@ (SampleB :> 20),
                            (SampleA :> 0) @@ (SampleB :> -2)}
    /\ filter_regex = NoFilter
    /\ min_read_count = 1
    /\ overflow_checks \in BOOLEAN
    /\ MergeStart
    /\ ProfileIdle
    /\ FindIdle

SpecNorm == InitNorm /\ [][MergeNext]_vars

\* ------------------------------------------- merge: what has been consumed
\* number of rows of profile i whose read count has been examined
ConsumedRows(i) ==
    IF i < profile_idx THEN Len(profiles[i].rows)
    ELSE IF i > profile_idx THEN 0
    ELSE (row_idx - 1) + (IF pending # <<>> THEN 1 ELSE 0)

TaggedRows(i) ==
    [j \in 1..ConsumedRows(i) |->
        [sample_id |-> profiles[i].sample_id, row |-> profiles[i].rows[j]]]

RECURSIVE ConsumedUpTo(_)
ConsumedUpTo(i) == IF i = 0 THEN <<>> ELSE ConsumedUpTo(i - 1) \o TaggedRows(i)

\* the rows examined so far, in manifest order, each with its sample
Consumed == ConsumedUpTo(Len(profiles))

\* the row passes the locus filter and the minimum read count
Qualifies(e) ==
    /\ filter_regex.some => e.row.locus_id \in filter_regex.matches
    /\ e.row.read_count >= min_read_count

QualifyingAt(l) ==
    {i \in 1..Len(Consumed) : Consumed[i].row.locus_id = l /\ Qualifies(Consumed[i])}

RECURSIVE EntriesFrom(_, _)
EntriesFrom(l, i) ==
    IF i > Len(Consumed) THEN <<>>
    ELSE (IF i \in QualifyingAt(l)
          THEN <<(<<Consumed[i].sample_id, Consumed[i].row.read_count>>)>>
          ELSE <<>>) \o EntriesFrom(l, i + 1)

Min(S) == CHOOSE x \in S : \A y \in S : x <= y

AtRowBoundary == pending = <<>> /\ m_pc \in {"rows", "done"}

\* sum of the normalized counts of the triples of cell from index i on that
\* carry the interruption, added to acc
RECURSIVE SumCell(_, _, _, _, _)
SumCell(cell, i, interruption, depth, acc) ==
    IF i > Len(cell) THEN acc
    ELSE LET t == cell[i]
             v == norm_interruption_count(t.count, read_len, t.repeat_len, depth, FALSE).value
         IN SumCell(cell, i + 1, interruption, depth,
                    IF t.interruption # interruption THEN acc
                    ELSE IF acc = <<>> THEN <<v>> ELSE <<FAdd(acc[1], v)>>)

\* <<>> when sample s has no qualifying triple with the interruption at
\* locus l, else <<sum>>
RECURSIVE SumConsumed(_, _, _, _, _)
SumConsumed(l, s, interruption, i, acc) ==
    IF i > Len(Consumed) THEN acc
    ELSE LET e == Consumed[i]
         IN SumConsumed(l, s, interruption, i + 1,
                IF e.sample_id = s /\ e.row.locus_id = l /\ Qualifies(e)
                THEN SumCell(e.row.interruption_counts, 1, interruption,
                             read_depths_map[s], acc)
                ELSE acc)

Samples == {profiles[i].sample_id : i \in 1..Len(profiles)}

MergedProfileVars ==
    <<mp_interruption_counts, mp_read_counts, mp_motifs, mp_reference_regions>>

\* --------------------------------------------------------- merge: claims

\* C2: every parsed triple of a qualifying row, whatever its repeat_len and
\* whatever its normalized value, is added once to the accumulator under
\* (locus, sample, interruption), and the merge goes on to the next triple
\* without aborting.
C2_QualityHandlingIsAdvisory ==
    [][(m_pc = "triples" /\ pending # <<>>) =>
         LET l == CurrentRecord.locus_id
             key == <<CurrentProfile.sample_id, Head(pending).interruption>>
         IN /\ m_pc' # "aborted"
            /\ pending' = Tail(pending)
            /\ Has(mp_interruption_counts', l)
            /\ Has(mp_interruption_counts'[l], key)]_vars

\* C3: a row whose read_count is below min_read_count changes none of the
\* four parts of the MergedProfile.
C3_BelowThresholdRowLeavesProfile ==
    [][(/\ m_pc = "rows"
        /\ profile_idx <= Len(profiles)
        /\ row_idx <= Len(CurrentProfile.rows)
        /\ CurrentRecord.read_count < min_read_count)
       => UNCHANGED MergedProfileVars]_vars

\* a below-threshold row that passes the filter, has a non-empty cell and
\* whose locus no row has defined, has been processed
C3_Witness ==
    \E i \in 1..Len(Consumed) :
        /\ Consumed[i].row.read_count < min_read_count
        /\ filter_regex.some => Consumed[i].row.locus_id \in filter_regex.matches
        /\ Consumed[i].row.interruption_counts # <<>>
        /\ ~Has(mp_motifs, Consumed[i].row.locus_id)

\* C4: the read_counts list of a locus holds one (sample_id, count) entry
\* per sample whose row for the locus passed the filter and the threshold, in
\* manifest order, and nothing else.
C4_ReadCountsPerQualifyingSample ==
    \A l \in Loci :
        /\ Has(mp_read_counts, l) <=> QualifyingAt(l) # {}
        /\ Has(mp_read_counts, l) =>
             /\ mp_read_counts[l] = EntriesFrom(l, 1)
             /\ Len(mp_read_counts[l]) =
                    Cardinality({Consumed[i].sample_id : i \in QualifyingAt(l)})
             /\ \A i, j \in 1..Len(mp_read_counts[l]) :
                    i # j => mp_read_counts[l][i][1] # mp_read_counts[l][j][1]

\* the merge is done, a locus has entries of two samples and some row of
\* that locus or another was dropped
C4_Witness ==
    /\ m_pc = "done"
    /\ \E l \in DOMAIN mp_read_counts : Len(mp_read_counts[l]) = 2
    /\ \E i \in 1..Len(Consumed) : ~Qualifies(Consumed[i])

\* C5: the motif and reference_region of a locus are those of the first row,
\* in manifest order, that passed the filter and the threshold; no later row
\* changes them.
C5_FirstQualifyingSampleWins ==
    \A l \in Loci :
        /\ Has(mp_motifs, l) <=> QualifyingAt(l) # {}
        /\ Has(mp_reference_regions, l) <=> QualifyingAt(l) # {}
        /\ QualifyingAt(l) # {} =>
             LET first == Consumed[Min(QualifyingAt(l))].row
             IN /\ mp_motifs[l] = first.motif
                /\ mp_reference_regions[l] = first.reference_region

\* two qualifying rows of one locus with different motif and region have
\* been merged
C5_Witness ==
    /\ m_pc = "done"
    /\ \E l \in Loci : \E i, j \in QualifyingAt(l) :
          /\ i < j
          /\ Consumed[i].row.motif # Consumed[j].row.motif
          /\ Consumed[i].row.reference_region # Consumed[j].row.reference_region

\* C6: for a triple with 0 < repeat_len <= read_len and a positive depth the
\* value added is count / ((read_len - repeat_len + 1) * depth), the factor
\* read_len - repeat_len + 1 is at least 1 and no u32 operation overflows.
C6_NormalizedCountInRange ==
    [][(/\ m_pc = "triples"
        /\ pending # <<>>
        /\ 0 < Head(pending).repeat_len
        /\ Head(pending).repeat_len <= read_len
        /\ read_depths_map[CurrentProfile.sample_id] > 0)
       => LET t == Head(pending)
              l == CurrentRecord.locus_id
              s == CurrentProfile.sample_id
              key == <<s, t.interruption>>
              starts == read_len - t.repeat_len + 1
              added == F64(t.count, starts * read_depths_map[s])
              before == IF Has(mp_interruption_counts, l)
                        THEN mp_interruption_counts[l] ELSE EmptyMap
          IN /\ starts >= 1
             /\ m_pc' # "aborted"
             /\ Has(mp_interruption_counts', l)
             /\ Has(mp_interruption_counts'[l], key)
             /\ mp_interruption_counts'[l][key] =
                    IF Has(before, key) THEN FAdd(before[key], added) ELSE added]_vars

\* the two worked examples: 1/1010 for sampleA (depth 10, repeat_len 50) and
\* 1/2720 for sampleB (depth 20, repeat_len 15)
C6_Witness ==
    /\ m_pc = "done"
    /\ overflow_checks
    /\ Has(mp_interruption_counts, "L1")
    /\ Has(mp_interruption_counts["L1"], <<SampleA, "T">>)
    /\ Has(mp_interruption_counts["L1"], <<SampleB, "T">>)
    /\ mp_interruption_counts["L1"][<<SampleA, "T">>] = F64(1, 1010)
    /\ mp_interruption_counts["L1"][<<SampleB, "T">>] = F64(1, 2720)

\* C7: once a row is processed the value under (locus, sample, interruption)
\* is the sum of the normalized counts of that sample's triples of the locus
\* with that interruption, over all repeat_len; a key exists only for a
\* sample that has such a triple.
C7_AccumulatorSumsOverRepeatLen ==
    AtRowBoundary =>
        \A l \in Loci : \A s \in Samples : \A x \in Interruptions :
            LET sum == SumConsumed(l, s, x, 1, <<>>)
                stored == IF Has(mp_interruption_counts, l)
                             /\ Has(mp_interruption_counts[l], <<s, x>>)
                          THEN <<mp_interruption_counts[l][<<s, x>>]>> ELSE <<>>
            IN stored = sum

\* a sample has two triples with the same interruption and different
\* repeat_len, both finite, and the stored value is their sum
C7_Witness ==
    /\ m_pc = "done"
    /\ \E i \in 1..Len(Consumed) :
          LET cell == Consumed[i].row.interruption_counts
          IN /\ Len(cell) = 2
             /\ cell[1].interruption = cell[2].interruption
             /\ cell[1].repeat_len = 50 /\ cell[2].repeat_len = 15
             /\ cell[1].count = 1 /\ cell[2].count = 1
             /\ Consumed[i].sample_id = SampleB
             /\ read_depths_map[SampleB] = 20
             /\ mp_interruption_counts["L1"][<<SampleB, cell[1].interruption>>]
                    = FAdd(F64(1, 2020), F64(1, 2720))

\* ------------------------------------------------------------ profile.rs
\* strings that are sliced or indexed are sequences of one-character strings
Str_CAG == <<"(", "C", "A", "G", ")", "*">>
Str_AC == <<"(", "A", "C", ")", "*">>
Str_Len3 == <<"(", ")", "*">>
Str_Len2 == <<"(", ")">>
Bases == {"A", "C", "T"}
ReadBases == {"C", "T"}
ReadLoci == {"L1", "L2", "L3"}
Operations == {"Match", "Subst", "Ins", "Del"}

\* bounds
MaxRecords == 2
MaxReads == 2
MaxReadLen == 2
MaxObsLen == 3
MaxPathLen == 4

\* pad argument of create_pure_seq at its call (profile.rs:140)
PureSeqPad == 4

\* record.remove(key) is None
MissingField(rec, key) == key \notin DOMAIN rec

\* only the underflow of the end index taken as a failure
StructureTooShort_Underflow(structure) == Len(structure) < 2

\* structure[1..structure.len() - 2] panics: the end index underflows or
\* lies before the start
StructureTooShort(structure) == Len(structure) < 3

\* structure[1..structure.len() - 2]
StripStructure(structure) == SubSeq(structure, 2, Len(structure) - 2)

\* the record skipped by the filter (profile.rs:216-220)
CatalogFilteredOut(regex, locus_id) == regex.some /\ ~is_match(regex, locus_id)

\* fn load_str_catalog: the loop over the records from index i on
RECURSIVE LoadFrom(_, _, _, _, _)
LoadFrom(doc, i, regex, mo, rr) ==
    IF i > Len(doc) THEN [panic |-> FALSE, motifs |-> mo, reference_regions |-> rr]
    ELSE LET rec == doc[i]
             failed == [panic |-> TRUE, motifs |-> EmptyMap, reference_regions |-> EmptyMap]
         IN IF MissingField(rec, "LocusId") THEN failed
            ELSE IF CatalogFilteredOut(regex, rec["LocusId"])
                 THEN LoadFrom(doc, i + 1, regex, mo, rr)
            ELSE IF MissingField(rec, "ReferenceRegion") THEN failed
            ELSE IF MissingField(rec, "LocusStructure") THEN failed
            ELSE IF StructureTooShort(rec["LocusStructure"]) THEN failed
            ELSE LoadFrom(doc, i + 1, regex,
                          Put(mo, rec["LocusId"], StripStructure(rec["LocusStructure"])),
                          Put(rr, rec["LocusId"], rec["ReferenceRegion"]))

load_str_catalog(doc, regex) == LoadFrom(doc, 1, regex, EmptyMap, EmptyMap)

RECURSIVE Repeat(_, _)
Repeat(seq, n) == IF n = 0 THEN <<>> ELSE seq \o Repeat(seq, n - 1)

\* fn create_pure_seq: the division panics for an empty motif
create_pure_seq(motif, len, pad) ==
    IF Len(motif) = 0 THEN [panic |-> TRUE, seq |-> <<>>]
    ELSE [panic |-> FALSE, seq |-> Repeat(motif, (len \div Len(motif)) + 1 + pad)]

\* Alignment::path(): each operation with the positions reached in the
\* observed and the pure sequence after it, xstart being 0
RECURSIVE PathFrom(_, _, _, _)
PathFrom(ops, i, x, y) ==
    IF i > Len(ops) THEN <<>>
    ELSE LET op == ops[i]
             nx == IF op \in {"Match", "Subst", "Ins"} THEN x + 1 ELSE x
             ny == IF op \in {"Match", "Subst", "Del"} THEN y + 1 ELSE y
         IN <<(<<nx, ny, op>>)>> \o PathFrom(ops, i + 1, nx, ny)

path(alignment) == PathFrom(alignment.operations, 1, 0, alignment.ystart)

RECURSIVE SeqsOfLen(_, _)
SeqsOfLen(S, n) ==
    IF n = 0 THEN {<<>>} ELSE {Append(p[1], p[2]) : p \in SeqsOfLen(S, n - 1) \X S}

SeqsUpTo(S, n) == UNION {SeqsOfLen(S, k) : k \in 0..n}

\* the operation sequences of at most budget operations that consume observed
\* from position x on against pure_seq from position y on: a Match joins equal
\* bases, a Subst different ones
RECURSIVE OpsFrom(_, _, _, _, _)
OpsFrom(observed, pure_seq, x, y, budget) ==
    (IF x = Len(observed) THEN {<<>>} ELSE {})
    \cup
    (IF budget = 0 THEN {}
     ELSE (IF x < Len(observed)
           THEN {<<"Ins">> \o r : r \in OpsFrom(observed, pure_seq, x + 1, y, budget - 1)}
           ELSE {})
          \cup
          (IF y < Len(pure_seq)
           THEN {<<"Del">> \o r : r \in OpsFrom(observed, pure_seq, x, y + 1, budget - 1)}
           ELSE {})
          \cup
          (IF x < Len(observed) /\ y < Len(pure_seq)
           THEN {<<(IF observed[x + 1] = pure_seq[y + 1] THEN "Match" ELSE "Subst")>> \o r :
                    r \in OpsFrom(observed, pure_seq, x + 1, y + 1, budget - 1)}
           ELSE {}))

\* what aligner.semiglobal may return for the two sequences: every alignment
\* of at most maxlen operations that consumes all of observed and starts
\* inside the first tile of pure_seq
Alignments(observed, pure_seq, motif_len, maxlen) ==
    UNION {{[operations |-> ops, ystart |-> y0] :
                ops \in OpsFrom(observed, pure_seq, 0, y0, maxlen)}
           : y0 \in 0..(motif_len - 1)}

\* the loop body flushing the run on a match only, not on a deletion
find_step_MatchFlushesOnly(st, step, observed) ==
    IF step[3] = "Subst" \/ step[3] = "Ins"
    THEN [interruptions |-> st.interruptions,
          interruption |-> Append(st.interruption, observed[step[1]])]
    ELSE IF step[3] = "Match" /\ st.interruption # <<>>
    THEN [interruptions |-> Append(st.interruptions, st.interruption),
          interruption |-> <<>>]
    ELSE st

\* the body of the loop of find_interruptions (profile.rs:179-186)
find_step(st, step, observed) ==
    IF step[3] = "Subst" \/ step[3] = "Ins"
    THEN [interruptions |-> st.interruptions,
          interruption |-> Append(st.interruption, observed[step[1]])]
    ELSE IF st.interruption # <<>>
    THEN [interruptions |-> Append(st.interruptions, st.interruption),
          interruption |-> <<>>]
    ELSE st

RECURSIVE FindFrom(_, _, _, _)
FindFrom(pth, i, st, observed) ==
    IF i > Len(pth) THEN st
    ELSE FindFrom(pth, i + 1, find_step(st, pth[i], observed), observed)

\* fn find_interruptions: the vector returned after the loop
find_interruptions(alignment, observed) ==
    FindFrom(path(alignment), 1, [interruptions |-> <<>>, interruption |-> <<>>],
             observed).interruptions

\* Profile::increment_interruption
p_increment_interruption(ic, locus_id, interruption, repeat_len) ==
    LET inner == IF Has(ic, locus_id) THEN ic[locus_id] ELSE EmptyMap
        key == <<interruption, repeat_len>>
    IN Put(ic, locus_id, Put(inner, key, IF Has(inner, key) THEN inner[key] + 1 ELSE 1))

\* Profile::increment_read_count
increment_read_count(rc, locus_id) ==
    Put(rc, locus_id, IF Has(rc, locus_id) THEN rc[locus_id] + 1 ELSE 1)

\* the loop over the interruptions of a read (profile.rs:159-161)
RECURSIVE IncrementAll(_, _, _, _, _)
IncrementAll(ic, locus_id, interruptions, i, repeat_len) ==
    IF i > Len(interruptions) THEN ic
    ELSE IncrementAll(p_increment_interruption(ic, locus_id, interruptions[i], repeat_len),
                      locus_id, interruptions, i + 1, repeat_len)

\* the rows taken from the loci that have reads
RowLoci_WithReads(mo) == DOMAIN mo \cap DOMAIN p_read_counts

\* the loci write_to emits a row for
RowLoci(mo) == DOMAIN mo

\* Profile::write_to: the rows written and whether a lookup panics
p_write_to(ic, rc, mo, rr) ==
    LET present == {l \in RowLoci(mo) : Has(rr, l)}
    IN [panic |-> present # RowLoci(mo),
        rows |-> {[locus_id |-> l, reference_region |-> rr[l], motif |-> mo[l],
                   read_count |-> IF Has(rc, l) THEN rc[l] ELSE 0,
                   interruption_counts |->
                       IF Has(ic, l)
                       THEN {<<k[1], k[2], ic[l][k]>> : k \in DOMAIN ic[l]}
                       ELSE {}]
                  : l \in present}]

\* the skip of unknown loci left out
InCatalog_Always(mo, locus_id) == TRUE

\* motifs.contains_key(locus_id) (profile.rs:130)
InCatalog(mo, locus_id) == Has(mo, locus_id)

\* load_str_catalog(str_catalog, filter)? (profile.rs:99)
LoadCatalog ==
    /\ p_pc = "start"
    /\ LET res == load_str_catalog(catalog, p_filter)
       IN IF res.panic
          THEN /\ p_pc' = "aborted"
               /\ UNCHANGED <<motifs, reference_regions>>
          ELSE /\ p_pc' = "reads"
               /\ motifs' = res.motifs
               /\ reference_regions' = res.reference_regions
    /\ UNCHANGED <<catalog, p_filter, p_locus_id, p_repeat_len, p_interruptions,
                   reads_done, p_interruption_counts,
                   p_read_counts, profile_out>>
    /\ UNCHANGED <<mergeVars, findVars>>

\* one iteration of the read loop on a record that is skipped or that
\* panics before the alignment (profile.rs:125-140)
ProcessReadSkipped ==
    /\ p_pc = "reads"
    /\ reads_done < MaxReads
    /\ \E locus_id \in ReadLoci, repeat_seq \in SeqsUpTo(ReadBases, MaxReadLen) :
          /\ p_locus_id' = locus_id
          /\ p_repeat_len' = 0
          /\ p_interruptions' = <<>>
          /\ \/ /\ ~InCatalog(motifs, locus_id)
                /\ UNCHANGED p_pc
             \/ /\ InCatalog(motifs, locus_id)
                /\ \/ ~Has(motifs, locus_id)
                   \/ /\ Has(motifs, locus_id)
                      /\ create_pure_seq(motifs[locus_id], Len(repeat_seq), PureSeqPad).panic
                /\ p_pc' = "aborted"
    /\ reads_done' = reads_done + 1
    /\ UNCHANGED <<catalog, p_filter, motifs, reference_regions,
                   p_interruption_counts, p_read_counts, profile_out>>
    /\ UNCHANGED <<mergeVars, findVars>>

\* one iteration of the read loop on a record that is aligned and counted
\* (profile.rs:125-161)
ProcessRead ==
    /\ p_pc = "reads"
    /\ reads_done < MaxReads
    /\ \E locus_id \in ReadLoci, repeat_seq \in SeqsUpTo(ReadBases, MaxReadLen) :
          /\ InCatalog(motifs, locus_id)
          /\ Has(motifs, locus_id)
          /\ LET motif == motifs[locus_id]
                 observed_seq == repeat_seq
                 pure == create_pure_seq(motif, Len(repeat_seq), PureSeqPad)
             IN /\ ~pure.panic
                /\ \E alignment \in Alignments(observed_seq, pure.seq, Len(motif),
                                                Len(observed_seq) + 1) :
                      LET interruptions == find_interruptions(alignment, observed_seq)
                      IN /\ p_interruptions' = interruptions
                         /\ p_repeat_len' = Len(observed_seq)
                         /\ p_read_counts' = increment_read_count(p_read_counts, locus_id)
                         /\ p_interruption_counts' =
                                IncrementAll(p_interruption_counts, locus_id,
                                             interruptions, 1, Len(observed_seq))
          /\ p_locus_id' = locus_id
    /\ reads_done' = reads_done + 1
    /\ UNCHANGED <<catalog, p_filter, p_pc, motifs, reference_regions, profile_out>>
    /\ UNCHANGED <<mergeVars, findVars>>

\* profile.write_to(out, &motifs, &reference_regions)? (profile.rs:165)
ProfileWrite ==
    /\ p_pc = "reads"
    /\ LET out == p_write_to(p_interruption_counts, p_read_counts, motifs,
                             reference_regions)
       IN IF out.panic
          THEN p_pc' = "aborted" /\ UNCHANGED profile_out
          ELSE p_pc' = "done" /\ profile_out' = out.rows
    /\ UNCHANGED <<catalog, p_filter, p_locus_id, p_repeat_len, p_interruptions,
                   reads_done, motifs, reference_regions,
                   p_interruption_counts, p_read_counts>>
    /\ UNCHANGED <<mergeVars, findVars>>

\* a field of a catalog record: present with one value, or absent
Field(key, opt) == IF opt = {} THEN EmptyMap ELSE key :> (CHOOSE v \in opt : TRUE)

CatalogRecord(id, region, structure) ==
    Field("LocusId", id) @@ Field("ReferenceRegion", region)
    @@ Field("LocusStructure", structure)

CatalogRecords ==
    {CatalogRecord(id, region, structure) :
        id \in {{l} : l \in Loci} \cup {{}},
        region \in {{"chr1:100-130"}, {}},
        structure \in {{Str_CAG}, {Str_AC}, {Str_Len3}, {Str_Len2}, {}}}

\* the well-formed records of a locus: its motif is CAG or empty
LocusRecords(l) ==
    {CatalogRecord({l}, {"chr1:100-130"}, {structure}) : structure \in {Str_CAG, Str_Len3}}

\* a catalog that lists both loci, filtered or not
InitProfile ==
    /\ catalog \in {<<r1, r2>> : r1 \in LocusRecords("L1"), r2 \in LocusRecords("L2")}
    /\ p_filter \in {NoFilter, FilterL1}
    /\ p_pc = "start"
    /\ p_locus_id = ""
    /\ p_repeat_len = 0
    /\ p_interruptions = <<>>
    /\ reads_done = 0
    /\ motifs = EmptyMap
    /\ reference_regions = EmptyMap
    /\ p_interruption_counts = EmptyMap
    /\ p_read_counts = EmptyMap
    /\ profile_out = {}
    /\ MergeIdle
    /\ FindIdle

\* any catalog of at most MaxRecords records, malformed ones included
InitCatalog ==
    /\ catalog \in SeqsUpTo(CatalogRecords, MaxRecords)
    /\ p_filter \in {NoFilter, FilterL1}
    /\ p_pc = "start"
    /\ p_locus_id = ""
    /\ p_repeat_len = 0
    /\ p_interruptions = <<>>
    /\ reads_done = 0
    /\ motifs = EmptyMap
    /\ reference_regions = EmptyMap
    /\ p_interruption_counts = EmptyMap
    /\ p_read_counts = EmptyMap
    /\ profile_out = {}
    /\ MergeIdle
    /\ FindIdle

CatalogNext == LoadCatalog

SpecCatalog == InitCatalog /\ [][CatalogNext]_vars

ProfileNext == LoadCatalog \/ ProcessReadSkipped \/ ProcessRead \/ ProfileWrite

SpecProfile == InitProfile /\ [][ProfileNext]_vars

\* ------------------------------------------- find_interruptions, stepwise
\* one iteration of the loop over the path (profile.rs:178-187)
FindStep ==
    /\ fi_pc = "loop"
    /\ fi_idx <= Len(path(fi_alignment))
    /\ LET st == find_step([interruptions |-> fi_interruptions,
                            interruption |-> fi_interruption],
                           path(fi_alignment)[fi_idx], fi_observed)
       IN /\ fi_interruptions' = st.interruptions
          /\ fi_interruption' = st.interruption
    /\ fi_idx' = fi_idx + 1
    /\ UNCHANGED <<fi_observed, fi_alignment, fi_pc, fi_result>>
    /\ UNCHANGED <<mergeVars, profileVars>>

\* the path is exhausted and the vector is returned (profile.rs:188)
FindReturn ==
    /\ fi_pc = "loop"
    /\ fi_idx > Len(path(fi_alignment))
    /\ fi_result' = fi_interruptions
    /\ fi_pc' = "returned"
    /\ UNCHANGED <<fi_observed, fi_alignment, fi_idx, fi_interruptions, fi_interruption>>
    /\ UNCHANGED <<mergeVars, profileVars>>

Motifs == {StripStructure(Str_CAG), StripStructure(Str_AC)}

InitFind ==
    /\ fi_observed \in SeqsUpTo(Bases, MaxObsLen)
    /\ \E motif \in Motifs :
          fi_alignment \in
              Alignments(fi_observed,
                         create_pure_seq(motif, Len(fi_observed), PureSeqPad).seq,
                         Len(motif), MaxPathLen)
    /\ fi_pc = "loop"
    /\ fi_idx = 1
    /\ fi_interruptions = <<>>
    /\ fi_interruption = <<>>
    /\ fi_result = <<>>
    /\ MergeIdle
    /\ ProfileIdle

FindNext == FindStep \/ FindReturn

SpecFind == InitFind /\ [][FindNext]_vars

\* ------------------------------------------------------- profile: claims
\* the bases of the run of Subst and Ins operations the path ends with
RECURSIVE TrailingRunFrom(_, _, _)
TrailingRunFrom(pth, i, observed) ==
    IF i = 0 \/ pth[i][3] \notin {"Subst", "Ins"} THEN <<>>
    ELSE Append(TrailingRunFrom(pth, i - 1, observed), observed[pth[i][1]])

TrailingRun == TrailingRunFrom(path(fi_alignment), Len(path(fi_alignment)), fi_observed)

\* C1: when the path ends inside a run of substitutions and insertions the
\* returned list ends with that run as one interruption.
C1_TrailingRunEmitted ==
    (fi_pc = "returned" /\ TrailingRun # <<>>) =>
        /\ fi_result # <<>>
        /\ fi_result[Len(fi_result)] = TrailingRun

\* the loci the loader retains: in the catalog and not excluded by the filter
RetainedLoci ==
    {catalog[i]["LocusId"] : i \in
        {j \in 1..Len(catalog) :
            /\ "LocusId" \in DOMAIN catalog[j]
            /\ p_filter.some => catalog[j]["LocusId"] \in p_filter.matches}}

\* C8: write_to emits one row for each retained locus and no other row; a
\* locus without reads has read_count 0 and an empty cell, a locus with reads
\* its read count and one entry for each (interruption, observed_length) key.
C8_OneRowPerCatalogLocus ==
    p_pc = "done" =>
        /\ {r.locus_id : r \in profile_out} = RetainedLoci
        /\ \A r1, r2 \in profile_out : r1.locus_id = r2.locus_id => r1 = r2
        /\ \A r \in profile_out :
             IF r.locus_id \notin DOMAIN p_read_counts
             THEN r.read_count = 0 /\ r.interruption_counts = {}
             ELSE /\ r.read_count = p_read_counts[r.locus_id]
                  /\ LET keys == IF r.locus_id \in DOMAIN p_interruption_counts
                                 THEN DOMAIN p_interruption_counts[r.locus_id] ELSE {}
                     IN /\ Cardinality(r.interruption_counts) = Cardinality(keys)
                        /\ \A k \in keys :
                             <<k[1], k[2], p_interruption_counts[r.locus_id][k]>>
                                 \in r.interruption_counts

\* both loci are retained and written, one without reads, the other with
\* two reads and two distinct keys
C8_Witness ==
    /\ p_pc = "done"
    /\ Cardinality(profile_out) = 2
    /\ \E r \in profile_out : r.read_count = 0 /\ r.interruption_counts = {}
    /\ \E r \in profile_out : r.read_count = 2 /\ Cardinality(r.interruption_counts) = 2

\* the record has every field the loader reads from it and a structure
\* string of at least three characters
WellFormed(rec) ==
    /\ {"LocusId", "ReferenceRegion", "LocusStructure"} \subseteq DOMAIN rec
    /\ Len(rec["LocusStructure"]) >= 3

\* the record's locus id is there and a supplied filter does not match it
ExcludedByFilter(rec) ==
    /\ "LocusId" \in DOMAIN rec
    /\ p_filter.some
    /\ rec["LocusId"] \notin p_filter.matches

LoadFailed == p_pc = "aborted" /\ motifs = EmptyMap /\ reference_regions = EmptyMap

\* C9 as stated: a record that lacks a required field or whose structure
\* string is too short makes the load fail, with or without a filter.
C9_AnyMalformedRecordFailsLoad ==
    (p_pc # "start" /\ \E i \in 1..Len(catalog) : ~WellFormed(catalog[i])) => LoadFailed

\* C9 amended: the load fails exactly when some record lacks its locus id,
\* or some record that the filter does not exclude is not well formed; a
\* failed load returns no mappings.
C9_MalformedExaminedRecordFailsLoad ==
    p_pc # "start" =>
        /\ p_pc \in {"reads", "aborted"}
        /\ p_pc = "aborted" <=>
             \E i \in 1..Len(catalog) :
                 ~WellFormed(catalog[i]) /\ ~ExcludedByFilter(catalog[i])
        /\ p_pc = "aborted" => LoadFailed

\* a load with a filter failed on a record the filter retains whose structure
\* string is too short, while an excluded record before it was malformed too
C9_Witness ==
    /\ LoadFailed
    /\ p_filter.some
    /\ Len(catalog) = 2
    /\ ExcludedByFilter(catalog[1]) /\ ~WellFormed(catalog[1])
    /\ ~ExcludedByFilter(catalog[2])
    /\ {"LocusId", "ReferenceRegion", "LocusStructure"} \subseteq DOMAIN catalog[2]
    /\ Len(catalog[2]["LocusStructure"]) = 2

\* C10: every locus key of the Profile is a retained locus; a read of a locus
\* that is not retained leaves the Profile unchanged and the run goes on.
C10_ProfileLociAreCatalogLoci ==
    /\ [](/\ DOMAIN p_read_counts \subseteq RetainedLoci
          /\ DOMAIN p_interruption_counts \subseteq RetainedLoci)
    /\ [][(reads_done' = reads_done + 1 /\ p_locus_id' \notin RetainedLoci)
          => (UNCHANGED <<p_read_counts, p_interruption_counts>> /\ p_pc' = "reads")]_vars

\* after a counted read of L1, a read of L2, which the filter excluded, was
\* skipped
C10_Witness ==
    /\ p_pc = "reads"
    /\ reads_done = 2
    /\ p_filter.some
    /\ p_locus_id = "L2"
    /\ "L2" \notin RetainedLoci
    /\ DOMAIN p_read_counts = {"L1"}
    /\ DOMAIN p_interruption_counts = {"L1"}


\* ---------------------------------------------------------------------
\* C11: per-read increments of the Profile

\* the number of entries of a list equal to s
Occurrences(list, s) == Cardinality({i \in DOMAIN list : list[i] = s})

\* the count a Profile holds under a locus and a key, 0 when it holds none
InterruptionCountAt(ic, l, key) ==
    IF Has(ic, l) /\ key \in DOMAIN ic[l] THEN ic[l][key] ELSE 0

ReadCountAt(rc, l) == IF Has(rc, l) THEN rc[l] ELSE 0

InterruptionKeys(ic, l) == IF Has(ic, l) THEN DOMAIN ic[l] ELSE {}

\* one iteration of the read loop
ReadLoopStep == p_pc = "reads" /\ reads_done' = reads_done + 1

\* C11: every read whose locus is in the catalog raises that locus's
\* read_count by exactly 1, creating the entry when absent, and raises the
\* count under (interruption, observed length) by 1 once per entry of the
\* detector's list; no other locus and no other key changes, a read with an
\* empty list changes read_count only, and read_count never decreases.
C11_ReadIncrementsExactlyOnce ==
    /\ [][(ReadLoopStep /\ p_locus_id' \in RetainedLoci)
            => LET l == p_locus_id'
                   keys == InterruptionKeys(p_interruption_counts, l)
                             \cup InterruptionKeys(p_interruption_counts', l)
                             \cup {<<p_interruptions'[i], p_repeat_len'>> :
                                      i \in DOMAIN p_interruptions'}
               IN /\ Has(p_read_counts', l)
                  /\ p_read_counts'[l] = ReadCountAt(p_read_counts, l) + 1
                  /\ \A o \in Loci \ {l} :
                        /\ Has(p_read_counts', o) = Has(p_read_counts, o)
                        /\ ReadCountAt(p_read_counts', o) = ReadCountAt(p_read_counts, o)
                        /\ InterruptionKeys(p_interruption_counts', o)
                             = InterruptionKeys(p_interruption_counts, o)
                        /\ \A k \in InterruptionKeys(p_interruption_counts, o) :
                              p_interruption_counts'[o][k] = p_interruption_counts[o][k]
                  /\ \A k \in keys :
                        InterruptionCountAt(p_interruption_counts', l, k)
                          = InterruptionCountAt(p_interruption_counts, l, k)
                              + (IF k[2] = p_repeat_len'
                                 THEN Occurrences(p_interruptions', k[1])
                                 ELSE 0)
                  /\ (p_interruptions' = <<>>)
                        => (p_interruption_counts' = p_interruption_counts)]_vars
    /\ [][\A l \in ReadLoci :
             ReadCountAt(p_read_counts', l) >= ReadCountAt(p_read_counts, l)]_vars


\* ---------------------------------------------------------------------
\* C12: the key sets of the MergedProfile and the rows written

\* the loci that received a read_count contribution from the rows examined
ContributedLoci == {l \in Loci : QualifyingAt(l) # {}}

\* C12: at every point of a merge the maps motifs, reference_regions and
\* read_counts have the same loci, namely those with a qualifying row so far,
\* the loci of interruption_counts are among them and every read_counts list
\* is non-empty; the write never fails on a lookup and emits exactly one row
\* for each of these loci, with its reference_region and its read_counts.
C12_MergedKeySetsAgree ==
    /\ DOMAIN mp_read_counts = ContributedLoci
    /\ DOMAIN mp_motifs = DOMAIN mp_read_counts
    /\ DOMAIN mp_reference_regions = DOMAIN mp_read_counts
    /\ DOMAIN mp_interruption_counts \subseteq DOMAIN mp_read_counts
    /\ \A l \in DOMAIN mp_read_counts : Len(mp_read_counts[l]) >= 1
    /\ m_pc = "aborted" => profile_idx <= Len(profiles)
    /\ m_pc = "done" =>
          /\ {r.locus_id : r \in merged_out} = ContributedLoci
          /\ Cardinality(merged_out) = Cardinality(ContributedLoci)
          /\ \A r \in merged_out :
                /\ r.reference_region = mp_reference_regions[r.locus_id]
                /\ r.read_counts = mp_read_counts[r.locus_id]
                /\ Len(r.read_counts) >= 1

\* a finished merge that wrote two rows, one of them without interruptions,
\* after dropping a row
C12_Witness ==
    /\ m_pc = "done"
    /\ Cardinality(merged_out) = 2
    /\ DOMAIN mp_interruption_counts # {}
    /\ DOMAIN mp_interruption_counts # DOMAIN mp_read_counts
    /\ \E i \in 1..Len(Consumed) : ~Qualifies(Consumed[i])


\* ---------------------------------------------------------------------
\* C13: the pure sequence of every motif the loader returns

\* C13: for every motif a successful load returns and every observed length
\* the motif is not empty, so the division is defined and create_pure_seq
\* does not panic; the pure sequence is the motif repeated
\* len / |motif| + 1 + 4 times and is longer than len + 4 * |motif|.
C13_PureSeqDefinedAndLongEnough ==
    p_pc = "reads" =>
        \A l \in DOMAIN motifs : \A len \in 0..MaxObsLen :
            LET motif == motifs[l]
                pure == create_pure_seq(motif, len, PureSeqPad)
            IN /\ Len(motif) > 0
               /\ ~pure.panic
               /\ pure.seq = Repeat(motif, (len \div Len(motif)) + 1 + 4)
               /\ Len(pure.seq) > len + 4 * Len(motif)


\* ---------------------------------------------------------------------
\* C14: the walk of find_interruptions over the edit path

\* the runs of Subst and Ins operations of pth from index i on that a Match
\* or a Del ends, each as the first and the last observed position it
\* consumes; start is the index the open run began at, 0 when none is open
RECURSIVE ClosedRunsFrom(_, _, _)
ClosedRunsFrom(pth, i, start) ==
    IF i > Len(pth) THEN <<>>
    ELSE IF pth[i][3] \in {"Subst", "Ins"}
    THEN ClosedRunsFrom(pth, i + 1, IF start = 0 THEN i ELSE start)
    ELSE (IF start # 0 THEN <<(<<pth[start][1], pth[i - 1][1]>>)>> ELSE <<>>)
         \o ClosedRunsFrom(pth, i + 1, 0)

ClosedRuns == ClosedRunsFrom(path(fi_alignment), 1, 0)

\* C14: each Subst or Ins step appends the observed base at its position,
\* which lies within the observed sequence, to the current run and leaves
\* the list alone; each Match or Del step moves a non-empty run to the end
\* of the list and resets it, and changes nothing when the run is empty; the
\* list returned holds, in path order, one non-empty contiguous substring of
\* the observed sequence for each run that a Match or a Del ends, and these
\* substrings occupy disjoint, increasing ranges of positions.
C14_InterruptionsAreOrderedDisjointRuns ==
    /\ [][(fi_pc = "loop" /\ fi_idx' = fi_idx + 1)
            => LET step == path(fi_alignment)[fi_idx]
               IN IF step[3] \in {"Subst", "Ins"}
                  THEN /\ step[1] \in 1..Len(fi_observed)
                       /\ fi_interruption' = Append(fi_interruption, fi_observed[step[1]])
                       /\ fi_interruptions' = fi_interruptions
                  ELSE IF fi_interruption # <<>>
                  THEN /\ fi_interruptions' = Append(fi_interruptions, fi_interruption)
                       /\ fi_interruption' = <<>>
                  ELSE /\ fi_interruptions' = fi_interruptions
                       /\ fi_interruption' = <<>>]_vars
    /\ [](fi_pc = "returned" =>
            /\ Len(fi_result) = Len(ClosedRuns)
            /\ \A k \in 1..Len(ClosedRuns) :
                  /\ 1 <= ClosedRuns[k][1]
                  /\ ClosedRuns[k][1] <= ClosedRuns[k][2]
                  /\ ClosedRuns[k][2] <= Len(fi_observed)
                  /\ fi_result[k] = SubSeq(fi_observed, ClosedRuns[k][1], ClosedRuns[k][2])
                  /\ fi_result[k] # <<>>
            /\ \A k \in 1..(Len(ClosedRuns) - 1) :
                  ClosedRuns[k][2] < ClosedRuns[k + 1][1])

\* a returned list of two interruptions that a deletion between two runs
\* split apart
C14_Witness ==
    /\ fi_pc = "returned"
    /\ Len(fi_result) = 2
    /\ \E i \in 2..(Len(path(fi_alignment)) - 1) :
          /\ path(fi_alignment)[i][3] = "Del"
          /\ path(fi_alignment)[i - 1][3] \in {"Subst", "Ins"}
          /\ path(fi_alignment)[i + 1][3] \in {"Subst", "Ins"}

====
